---- MODULE Spec2Model ----
(***************************************************************************)
(* The two AMap MCP adapters of this repository as one state machine.      *)
(*                                                                         *)
(*   coordinate server  src/amap-coordinate-server/src/index.ts            *)
(*   route server       src/amap-coordinate-server/README.md, lines 71-434 *)
(*                      (the route server's index.ts is kept in that file) *)
(*                                                                         *)
(* One CallTool invocation is followed from the moment the handler runs    *)
(* to its response or thrown error.  The upstream provider and the HTTP    *)
(* client are the environment: the handler issues a GET, and the provider  *)
(* answers with a status and a body, or the transport fails.               *)
(***************************************************************************)
EXTENDS Integers, Sequences, FiniteSets, TLC

VARIABLES
    env,       \* process.env.AMAP_API_KEY of the running process
    call,      \* the invocation being handled: server, name, arguments
    pc,        \* "idle" | "awaiting" (suspended in await get/fetch) | "done"
    gets,      \* the upstream GETs issued for this invocation, in order
    upstream,  \* what the provider/transport answered, None before that
    outcome,   \* the handler's result: a returned response or a thrown error
    proc,      \* the server process: which server, how far it has started or stopped
    listed,    \* the catalogs the process's ListTools handler has returned, in order
    calls      \* invocations in progress side by side, one per request id

vars == <<env, call, pc, gets, upstream, outcome, proc, listed, calls>>

\* what handling one invocation leaves alone
others == <<proc, listed, calls>>

(***************************************************************************)
(* Bounds of the model.                                                    *)
(***************************************************************************)
\* most keys an argument bag sent to the coordinate server carries
MaxCoordArgs == 2
\* most keys an argument bag sent to the route server carries
MaxRouteArgs == 3

(***************************************************************************)
(* JavaScript values, as far as the handlers look at them.                 *)
(***************************************************************************)
Undefined == [t |-> "undefined"]
Str(s) == [t |-> "string", s |-> s]
Num(n) == [t |-> "number", n |-> n]
Bool(b) == [t |-> "boolean", b |-> b]
Obj(f) == [t |-> "object", props |-> f]
None == [kind |-> "none"]

\* typeof v
TypeOf(v) == v.t

\* args.k, and request.params.arguments?.k : undefined when args is not an
\* object or has no such property
Get(args, k) ==
    IF args.t = "object" /\ k \in DOMAIN args.props THEN args.props[k] ELSE Undefined

\* 'k' in args
HasKey(args, k) == args.t = "object" /\ k \in DOMAIN args.props

\* String(v)
JsString(v) ==
    CASE v.t = "string" -> v.s
      [] v.t = "number" -> ToString(v.n)
      [] v.t = "boolean" -> (IF v.b THEN "true" ELSE "false")
      [] v.t = "undefined" -> "undefined"
      [] OTHER -> "[object Object]"

\* !s for a string s
Falsy(s) == s = ""

(***************************************************************************)
(* JSON.stringify(data, null, indent) on the data the upstream can return: *)
(* a flat object (a sequence of <<key, string>> members) or a raw string.  *)
(***************************************************************************)
Quote(s) == "\"" \o s \o "\""

RECURSIVE Members(_, _, _)
Members(ms, i, indent) ==
    IF i > Len(ms) THEN ""
    ELSE (IF i > 1 THEN "," ELSE "")
         \o (IF indent > 0 THEN "\n  " ELSE "")
         \o Quote(ms[i][1]) \o ":" \o (IF indent > 0 THEN " " ELSE "")
         \o Quote(ms[i][2])
         \o Members(ms, i + 1, indent)

JsonStringify(data, indent) ==
    IF data.t = "string" THEN Quote(data.s)
    ELSE IF Len(data.members) = 0 THEN "{}"
    ELSE "{" \o Members(data.members, 1, indent)
             \o (IF indent > 0 THEN "\n" ELSE "") \o "}"

JsonObj(ms) == [t |-> "json", members |-> ms]

(***************************************************************************)
(* Tool catalogs: what each ListTools handler returns.  A descriptor is    *)
(* the tool's name, the declared type of each property of its inputSchema  *)
(* and the schema's "required" list.                                       *)
(***************************************************************************)
Tool(n, props, req) == [name |-> n, properties |-> props, required |-> req]

CoordListTools ==
    << Tool("coordinate_convert",
            [locations |-> "string", coordsys |-> "string", output |-> "string"],
            {"locations"}),
       Tool("keyword_search",
            [keywords |-> "string", types |-> "string", city |-> "string",
             citylimit |-> "boolean", children |-> "number", offset |-> "number",
             page |-> "number", extensions |-> "string"],
            {"keywords"}),
       Tool("around_search",
            [location |-> "string", keywords |-> "string", types |-> "string",
             city |-> "string", radius |-> "number", sortrule |-> "string",
             offset |-> "number", page |-> "number", extensions |-> "string"],
            {"location"}),
       Tool("polygon_search",
            [polygon |-> "string", keywords |-> "string", types |-> "string",
             offset |-> "number", page |-> "number", extensions |-> "string"],
            {"polygon"}),
       Tool("id_search", [id |-> "string"], {"id"}),
       Tool("aoi_boundary_query", [id |-> "string"], {"id"}) >>

RouteListTools ==
    << Tool("walking_route",
            [origin |-> "string", destination |-> "string"],
            {"origin", "destination"}),
       Tool("transit_route",
            [origin |-> "string", destination |-> "string", city |-> "string"],
            {"origin", "destination", "city"}),
       Tool("driving_route",
            [origin |-> "string", destination |-> "string"],
            {"origin", "destination"}),
       Tool("bicycling_route",
            [origin |-> "string", destination |-> "string"],
            {"origin", "destination"}),
       Tool("distance",
            [origins |-> "string", destination |-> "string"],
            {"origins", "destination"}) >>

ListTools(server) == IF server = "coordinate" THEN CoordListTools ELSE RouteListTools

ToolNames(server) == {ListTools(server)[i].name : i \in DOMAIN ListTools(server)}

Descriptor(server, n) ==
    LET cat == ListTools(server)
    IN  cat[CHOOSE i \in DOMAIN cat : cat[i].name = n]

(***************************************************************************)
(* Coordinate server.                                                      *)
(***************************************************************************)
\* isValidSearchArgs with the else-if chain replaced by independent tests: any
\* of the five keys being a string is enough
IsValidSearchArgs_AnyKey(args) ==
    IF args.t # "object" THEN FALSE
    ELSE \/ /\ HasKey(args, "locations")
            /\ TypeOf(Get(args, "locations")) = "string"
            /\ (Get(args, "coordsys").t = "undefined" \/ TypeOf(Get(args, "coordsys")) = "string")
            /\ (Get(args, "output").t = "undefined" \/ TypeOf(Get(args, "output")) = "string")
         \/ HasKey(args, "keywords") /\ TypeOf(Get(args, "keywords")) = "string"
         \/ HasKey(args, "location") /\ TypeOf(Get(args, "location")) = "string"
         \/ HasKey(args, "polygon") /\ TypeOf(Get(args, "polygon")) = "string"
         \/ HasKey(args, "id") /\ TypeOf(Get(args, "id")) = "string"

\* isValidSearchArgs: a JSON-decoded argument bag has no undefined-valued
\* property, so args.k === undefined is "k is absent"
IsValidSearchArgs(args) ==
    IF args.t # "object" THEN FALSE
    ELSE IF HasKey(args, "locations") THEN
        /\ TypeOf(Get(args, "locations")) = "string"
        /\ (Get(args, "coordsys").t = "undefined" \/ TypeOf(Get(args, "coordsys")) = "string")
        /\ (Get(args, "output").t = "undefined" \/ TypeOf(Get(args, "output")) = "string")
    ELSE IF HasKey(args, "keywords") THEN TypeOf(Get(args, "keywords")) = "string"
    ELSE IF HasKey(args, "location") THEN TypeOf(Get(args, "location")) = "string"
    ELSE IF HasKey(args, "polygon") THEN TypeOf(Get(args, "polygon")) = "string"
    ELSE IF HasKey(args, "id") THEN TypeOf(Get(args, "id")) = "string"
    ELSE FALSE

\* the URL each case of the switch passes to axios.get
CoordUrl(name) ==
    CASE name = "coordinate_convert" -> "https://restapi.amap.com/v3/assistant/coordinate/convert"
      [] name = "keyword_search" -> "https://restapi.amap.com/v3/place/text"
      [] name = "around_search" -> "https://restapi.amap.com/v3/place/around"
      [] name = "polygon_search" -> "https://restapi.amap.com/v3/place/polygon"
      [] name = "id_search" -> "https://restapi.amap.com/v3/place/detail"
      [] name = "aoi_boundary_query" -> "https://restapi.amap.com/v5/aoi/polyline"

\* CoordParamKeys with sortrule left out of the around_search params
CoordParamKeys_NoSortrule(name) ==
    CASE name = "coordinate_convert" -> <<"locations", "coordsys", "output", "key">>
      [] name = "keyword_search" ->
            <<"key", "keywords", "types", "city", "citylimit", "children",
              "offset", "page", "extensions">>
      [] name = "around_search" ->
            <<"key", "location", "keywords", "types", "city", "radius",
              "offset", "page", "extensions">>
      [] name = "polygon_search" ->
            <<"key", "polygon", "keywords", "types", "offset", "page", "extensions">>
      [] name = "id_search" -> <<"key", "id">>
      [] name = "aoi_boundary_query" -> <<"key", "id">>

\* the keys of the params object each case builds, in the order written
CoordParamKeys(name) ==
    CASE name = "coordinate_convert" -> <<"locations", "coordsys", "output", "key">>
      [] name = "keyword_search" ->
            <<"key", "keywords", "types", "city", "citylimit", "children",
              "offset", "page", "extensions">>
      [] name = "around_search" ->
            <<"key", "location", "keywords", "types", "city", "radius",
              "sortrule", "offset", "page", "extensions">>
      [] name = "polygon_search" ->
            <<"key", "polygon", "keywords", "types", "offset", "page", "extensions">>
      [] name = "id_search" -> <<"key", "id">>
      [] name = "aoi_boundary_query" -> <<"key", "id">>

\* the params object: each key bound to the destructured argument (undefined
\* when the bag lacks it), and key bound to API_KEY
CoordParams(name, args, apiKey) ==
    [i \in DOMAIN CoordParamKeys(name) |->
        LET k == CoordParamKeys(name)[i]
        IN  <<k, IF k = "key" THEN Str(apiKey) ELSE Get(args, k)>>]

\* axios serialises params into the query string and leaves out the entries
\* whose value is undefined
AxiosQuery(params) ==
    LET kept == SelectSeq(params, LAMBDA p : p[2].t # "undefined")
    IN  [i \in DOMAIN kept |-> <<kept[i][1], JsString(kept[i][2])>>]

\* where a handler stands when it suspends or finishes: its position, the GETs
\* it has issued, and what it returned or threw
Step(p, g, o) == [pc |-> p, gets |-> g, outcome |-> o]

Get_(url, query) == [method |-> "GET", url |-> url, query |-> query]

Throw(e) == [kind |-> "throw", error |-> e]
McpError(code, message) == [class |-> "McpError", code |-> code, message |-> message]
Error(message) == [class |-> "Error", message |-> message]
TextItem(text) == [type |-> "text", text |-> text]

\* CoordCallTool with the switch's default case lost: an unmatched name runs
\* the last case
CoordCallTool_NoDefault(name, args, apiKey) ==
    LET n == IF name \in {"coordinate_convert", "keyword_search", "around_search",
                          "polygon_search", "id_search", "aoi_boundary_query"}
             THEN name ELSE "aoi_boundary_query"
    IN  IF ~IsValidSearchArgs(args)
        THEN Step("done", <<>>, Throw(McpError("InvalidParams", "Invalid arguments")))
        ELSE Step("awaiting",
                  <<Get_(CoordUrl(n), AxiosQuery(CoordParams(n, args, apiKey)))>>,
                  None)

\* the CallTool handler up to its await: the switch, the argument check, the GET
CoordCallTool(name, args, apiKey) ==
    IF name \in {"coordinate_convert", "keyword_search", "around_search",
                 "polygon_search", "id_search", "aoi_boundary_query"}
    THEN IF ~IsValidSearchArgs(args)
         THEN Step("done", <<>>, Throw(McpError("InvalidParams", "Invalid arguments")))
         ELSE Step("awaiting",
                   <<Get_(CoordUrl(name), AxiosQuery(CoordParams(name, args, apiKey)))>>,
                   None)
    ELSE Step("done", <<>>, Throw(McpError("MethodNotFound", "Unknown tool: " \o name)))

(***************************************************************************)
(* The upstream, as the HTTP clients see it: the transport fails with a    *)
(* message, or the provider answers with a status and a body that is JSON  *)
(* or is not.                                                              *)
(***************************************************************************)
NetworkError(m) == [kind |-> "neterr", message |-> m]
HttpResponse(status, body) == [kind |-> "response", status |-> status, body |-> body]
Malformed(raw) == [t |-> "malformed", raw |-> raw]

Resolved(data) == [kind |-> "resolved", data |-> data]
Rejected(message) == [kind |-> "rejected", message |-> message]

\* await axios.get(...): rejects on a transport failure and, under axios's
\* default validateStatus, on every status outside 200..299; a body that does
\* not parse as JSON is handed over as the raw string
AxiosSettle(o) ==
    IF o.kind = "neterr" THEN Rejected(o.message)
    ELSE IF ~(o.status >= 200 /\ o.status < 300)
         THEN Rejected("Request failed with status code " \o ToString(o.status))
    ELSE IF o.body.t = "malformed" THEN Resolved(Str(o.body.raw))
    ELSE Resolved(o.body)

\* CoordResume with a catch that throws the error on instead of answering
CoordResume_Rethrow(g, o) ==
    LET r == AxiosSettle(o)
    IN  IF r.kind = "resolved"
        THEN Step("done", g,
                  [kind |-> "result",
                   content |-> <<TextItem(JsonStringify(r.data, 2))>>])
        ELSE Step("done", g, Throw(Error(r.message)))

\* CoordResume with a catch that issues the same GET once more and waits again
CoordResume_Retry(g, o) ==
    LET r == AxiosSettle(o)
    IN  IF r.kind = "resolved"
        THEN Step("done", g,
                  [kind |-> "result",
                   content |-> <<TextItem(JsonStringify(r.data, 2))>>])
        ELSE IF Len(g) < 2
        THEN Step("awaiting", g \o g, None)
        ELSE Step("done", g,
                  [kind |-> "result",
                   content |-> <<TextItem("AMap API error: " \o r.message)>>,
                   isError |-> TRUE])

\* the rest of a case of the coordinate server's switch: the return inside
\* try, and the catch
CoordResume(g, o) ==
    LET r == AxiosSettle(o)
    IN  IF r.kind = "resolved"
        THEN Step("done", g,
                  [kind |-> "result",
                   content |-> <<TextItem(JsonStringify(r.data, 2))>>])
        ELSE Step("done", g,
                  [kind |-> "result",
                   content |-> <<TextItem("AMap API error: " \o r.message)>>,
                   isError |-> TRUE])

(***************************************************************************)
(* Route server.                                                           *)
(***************************************************************************)
\* const apiKey = "..." in the CallTool handler
RouteApiKey == "ae4775b98c50d997cab4bcd6c769bf9b"

\* the parameters each case reads, in the order its URL template uses them
RouteParamKeys(name) ==
    CASE name = "walking_route" -> <<"origin", "destination">>
      [] name = "transit_route" -> <<"origin", "destination", "city">>
      [] name = "driving_route" -> <<"origin", "destination">>
      [] name = "bicycling_route" -> <<"origin", "destination">>
      [] name = "distance" -> <<"origins", "destination">>

RouteUrl(name) ==
    CASE name = "walking_route" -> "https://restapi.amap.com/v3/direction/walking"
      [] name = "transit_route" -> "https://restapi.amap.com/v3/direction/transit/integrated"
      [] name = "driving_route" -> "https://restapi.amap.com/v3/direction/driving"
      [] name = "bicycling_route" -> "https://restapi.amap.com/v4/direction/bicycling"
      [] name = "distance" -> "https://restapi.amap.com/v3/distance"

RouteRequiredMessage(name) ==
    CASE name = "transit_route" -> "Origin, destination and city are required"
      [] name = "distance" -> "Origins and destination are required"
      [] OTHER -> "Origin and destination are required"

\* const origin = String(request.params.arguments?.origin), and so on
RouteLocals(name, args) ==
    [i \in DOMAIN RouteParamKeys(name) |->
        <<RouteParamKeys(name)[i], JsString(Get(args, RouteParamKeys(name)[i]))>>]

\* if (!origin || !destination) ...
RouteMissing(locals) == \E i \in DOMAIN locals : Falsy(locals[i][2])

\* the query string of the URL template: the locals, then key=${apiKey}
RouteQuery(locals) == locals \o << <<"key", RouteApiKey>> >>

\* the CallTool handler up to await fetch(url)
RouteCallTool(name, args) ==
    IF name \in {"walking_route", "transit_route", "driving_route",
                 "bicycling_route", "distance"}
    THEN LET locals == RouteLocals(name, args)
         IN  IF RouteMissing(locals)
             THEN Step("done", <<>>, Throw(Error(RouteRequiredMessage(name))))
             ELSE Step("awaiting", <<Get_(RouteUrl(name), RouteQuery(locals))>>, None)
    ELSE Step("done", <<>>, Throw(Error("Unknown tool")))

\* await fetch(url) rejects on a transport failure only; await response.json()
\* rejects when the body is not JSON
FetchSettle(o) ==
    IF o.kind = "neterr" THEN Rejected(o.message)
    ELSE IF o.body.t = "malformed" THEN Rejected("invalid json response body")
    ELSE Resolved(o.body)

\* the rest of a case of the route server's switch; nothing catches a rejection
RouteResume(g, o) ==
    LET r == FetchSettle(o)
    IN  IF r.kind = "resolved"
        THEN Step("done", g,
                  [kind |-> "result",
                   content |-> <<TextItem(JsonStringify(r.data, 0))>>])
        ELSE Step("done", g, Throw([class |-> "FetchError", message |-> r.message]))

(***************************************************************************)
(* Inputs.                                                                 *)
(***************************************************************************)
EnvKeys == {"env-key-1", "env-key-2"}

Values == {Str("116.4,39.9"), Str(""), Num(5), Bool(TRUE)}

CoordKeys ==
    {"locations", "coordsys", "output", "keywords", "types", "city", "citylimit",
     "children", "offset", "page", "extensions", "location", "radius", "sortrule",
     "polygon", "id"}

RouteKeys == {"origin", "origins", "destination", "city"}

\* request.params.arguments: left out, or an object with at most n of the keys
Bags(keys, n) ==
    {Undefined} \cup
    UNION {{Obj(f) : f \in [S -> Values]} : S \in {T \in SUBSET keys : Cardinality(T) <= n}}

CoordBags == Bags(CoordKeys, MaxCoordArgs)
RouteBags == Bags(RouteKeys, MaxRouteArgs)

\* request.params.name: the tools of both servers and a name neither has
Names == ToolNames("coordinate") \cup ToolNames("route") \cup {"create_note"}

Statuses == {200, 500}
Bodies ==
    {JsonObj(<< <<"status", "1">> >>),
     JsonObj(<< <<"status", "0">>, <<"info", "INVALID_USER_KEY">> >>),
     Malformed("<html>")}
UpstreamOutcomes ==
    {NetworkError("connect ECONNREFUSED")}
    \cup {HttpResponse(s, b) : s \in Statuses, b \in Bodies}

(***************************************************************************)
(* The state machine.                                                      *)
(***************************************************************************)
\* no invocation is being handled
Quiet ==
    /\ call = None
    /\ pc = "idle"
    /\ gets = <<>>
    /\ upstream = None
    /\ outcome = None

\* a started process of either server: the handlers are registered and the
\* transport is connected; proc is followed only by the specification of the
\* process's life, further down
Serving == [phase |-> "serving"]

Init ==
    /\ env \in EnvKeys
    /\ Quiet
    /\ proc = Serving
    /\ listed = <<>>
    /\ calls = <<>>

Begin(server, name, args, step) ==
    /\ call' = [kind |-> "call", server |-> server, name |-> name, args |-> args]
    /\ pc' = step.pc
    /\ gets' = step.gets
    /\ outcome' = step.outcome
    /\ upstream' = None
    /\ UNCHANGED <<env, others>>

\* a CallTool request reaches the coordinate server; API_KEY is the
\* environment's AMAP_API_KEY
CoordCallToolRequest ==
    /\ pc = "idle"
    /\ \E name \in Names, args \in CoordBags :
        Begin("coordinate", name, args, CoordCallTool(name, args, env))

\* a CallTool request reaches the route server
RouteCallToolRequest ==
    /\ pc = "idle"
    /\ \E name \in Names, args \in RouteBags :
        Begin("route", name, args, RouteCallTool(name, args))

\* the awaited GET of the coordinate server settles
CoordUpstreamSettles ==
    /\ pc = "awaiting"
    /\ call.server = "coordinate"
    /\ \E o \in UpstreamOutcomes :
        LET step == CoordResume(gets, o)
        IN  /\ upstream' = o
            /\ pc' = step.pc
            /\ gets' = step.gets
            /\ outcome' = step.outcome
            /\ UNCHANGED <<env, call, others>>

\* the awaited fetch of the route server settles
RouteUpstreamSettles ==
    /\ pc = "awaiting"
    /\ call.server = "route"
    /\ \E o \in UpstreamOutcomes :
        LET step == RouteResume(gets, o)
        IN  /\ upstream' = o
            /\ pc' = step.pc
            /\ gets' = step.gets
            /\ outcome' = step.outcome
            /\ UNCHANGED <<env, call, others>>

\* the SDK sends the handler's response, or the error it threw, back to the
\* client; the server waits for the next request
Reply ==
    /\ pc = "done"
    /\ pc' = "idle"
    /\ call' = None
    /\ gets' = <<>>
    /\ upstream' = None
    /\ outcome' = None
    /\ UNCHANGED <<env, others>>

Next ==
    \/ Reply
    \/ CoordCallToolRequest
    \/ RouteCallToolRequest
    \/ CoordUpstreamSettles
    \/ RouteUpstreamSettles

Spec == Init /\ [][Next]_vars

TypeOK ==
    /\ env \in EnvKeys
    /\ pc \in {"idle", "awaiting", "done"}
    /\ pc = "idle" <=> call = None
    /\ pc = "awaiting" => outcome = None /\ upstream = None
    /\ pc = "done" => outcome.kind \in {"result", "throw"}

(***************************************************************************)
(* Properties.                                                             *)
(***************************************************************************)
\* an invocation is being handled or has just been answered
InCall == pc # "idle"

\* the invocation names a tool of the server it was sent to
KnownTool == InCall /\ call.name \in ToolNames(call.server)

\* the handler threw before any GET was issued
RejectedUnsent == pc = "done" /\ gets = <<>> /\ upstream = None /\ outcome.kind = "throw"

\* isError of a returned response; a response without the field is not an error
IsError(r) == "isError" \in DOMAIN r /\ r.isError

\* no invocation ever has more than one GET issued for it, before or after
\* the upstream settles
AtMostOneGet == Len(gets) <= 1 /\ (pc = "awaiting" => Len(gets) = 1)

\* C1: on the coordinate server, an invocation of a catalog tool whose bag
\* lacks the parameter the tool's schema requires is rejected with
\* InvalidParams and no GET is issued.
C1_MissingRequiredRejected ==
    (/\ KnownTool
     /\ call.server = "coordinate"
     /\ \E k \in Descriptor("coordinate", call.name).required : ~HasKey(call.args, k))
    => (RejectedUnsent /\ outcome.error.code = "InvalidParams")

\* C2: on the route server, an invocation of a catalog tool that lacks one of
\* the tool's required parameters fails with an error and no request is issued.
C2_RouteMissingRequiredRejected ==
    (/\ KnownTool
     /\ call.server = "route"
     /\ \E k \in Descriptor("route", call.name).required : ~HasKey(call.args, k))
    => RejectedUnsent

\* C3: on either server, an invocation of a catalog tool in which a required
\* parameter is present with a value that is not of the declared kind (string)
\* is rejected and no request is issued.
C3_WrongKindRequiredRejected ==
    (/\ KnownTool
     /\ \E k \in Descriptor(call.server, call.name).required :
            /\ HasKey(call.args, k)
            /\ TypeOf(Get(call.args, k)) # Descriptor(call.server, call.name).properties[k])
    => RejectedUnsent

\* C4: on the coordinate server, an invocation of a catalog tool in which an
\* optional parameter is present with a value that is not of the kind the
\* schema declares is rejected and no GET is issued.
C4_WrongKindOptionalRejected ==
    (/\ KnownTool
     /\ call.server = "coordinate"
     /\ LET d == Descriptor("coordinate", call.name)
        IN  \E k \in (DOMAIN d.properties) \ d.required :
                /\ HasKey(call.args, k)
                /\ TypeOf(Get(call.args, k)) # d.properties[k])
    => RejectedUnsent

\* C5: on either server, when the upstream fails at the transport (the
\* connection fails, or the body is not JSON), the handler returns a response
\* with isError = true and one text item, "AMap API error: " followed by the
\* transport's message; nothing is thrown.
C5_TransportFailureIsSoft ==
    (/\ pc = "done"
     /\ upstream.kind # "none"
     /\ (upstream.kind = "neterr" \/ upstream.body.t = "malformed"))
    => /\ outcome.kind = "result"
       /\ IsError(outcome)
       /\ Len(outcome.content) = 1
       /\ outcome.content[1].type = "text"
       /\ (upstream.kind = "neterr" =>
             outcome.content[1].text = "AMap API error: " \o upstream.message)

\* C6: on either server, when the upstream answers with a JSON body, whatever
\* the status, the handler returns a response that is not an error and holds
\* one text item, JSON.stringify(body).
C6_BodyPassedThrough ==
    (/\ pc = "done"
     /\ upstream.kind = "response"
     /\ upstream.body.t = "json")
    => /\ outcome.kind = "result"
       /\ ~IsError(outcome)
       /\ outcome.content = <<TextItem(JsonStringify(upstream.body, 0))>>

\* C7: an invocation whose name is not in the server's catalog ends in a
\* thrown unknown-tool error (MethodNotFound on the coordinate server, the
\* Error "Unknown tool" on the route server), never a returned response, and
\* no GET is issued, whatever the arguments.
C7_UnknownToolThrows ==
    (InCall /\ call.name \notin ToolNames(call.server))
    => /\ RejectedUnsent
       /\ outcome.error =
            (IF call.server = "coordinate"
             THEN McpError("MethodNotFound", "Unknown tool: " \o call.name)
             ELSE Error("Unknown tool"))

\* an unknown name was sent to the coordinate server with a bag its argument
\* check accepts, and the handler has finished
C7_Witness ==
    /\ pc = "done"
    /\ call.server = "coordinate"
    /\ call.name = "walking_route"
    /\ IsValidSearchArgs(call.args)
    /\ outcome.kind = "throw"

\* the path column of the endpoint table
EndpointPath(name) ==
    CASE name = "coordinate_convert" -> "/v3/assistant/coordinate/convert"
      [] name = "keyword_search" -> "/v3/place/text"
      [] name = "around_search" -> "/v3/place/around"
      [] name = "polygon_search" -> "/v3/place/polygon"
      [] name = "id_search" -> "/v3/place/detail"
      [] name = "aoi_boundary_query" -> "/v5/aoi/polyline"
      [] name = "walking_route" -> "/v3/direction/walking"
      [] name = "transit_route" -> "/v3/direction/transit/integrated"
      [] name = "driving_route" -> "/v3/direction/driving"
      [] name = "bicycling_route" -> "/v4/direction/bicycling"
      [] name = "distance" -> "/v3/distance"

\* the handler's own argument check lets the invocation through: the tool is
\* in the catalog and isValidSearchArgs holds (coordinate server), or no
\* String(...) local is empty (route server)
PassesValidation ==
    /\ KnownTool
    /\ IF call.server = "coordinate"
       THEN IsValidSearchArgs(call.args)
       ELSE ~RouteMissing(RouteLocals(call.name, call.args))

C9_OnlyPresentArgumentsSent ==
    \A i \in DOMAIN gets :
        \A j \in DOMAIN gets[i].query :
            gets[i].query[j][1] # "key" => HasKey(call.args, gets[i].query[j][1])

\* C10: every issued request carries a key parameter whose value is the
\* AMAP_API_KEY of the environment.
C10_KeyFromEnvironment ==
    \A i \in DOMAIN gets :
        /\ \E j \in DOMAIN gets[i].query : gets[i].query[j][1] = "key"
        /\ \A j \in DOMAIN gets[i].query :
              gets[i].query[j][1] = "key" => gets[i].query[j][2] = env

(***************************************************************************)
(* The life of one server process: start, service, SIGINT.                 *)
(***************************************************************************)
\* most ListTools answers followed
MaxLists == 2

\* process.env.AMAP_API_KEY when the process starts: unset, empty, or a key
Environs == {Undefined, Str("")} \cup {Str(k) : k \in EnvKeys}

\* !API_KEY is false
Truthy(v) == v.t = "string" /\ ~Falsy(v.s)

\* a process that has been launched and has run none of its module yet
Launched(server, environ) ==
    [server |-> server, environ |-> environ, phase |-> "load",
     handlers |-> FALSE,    \* setRequestHandler has been called
     sigint |-> FALSE,      \* a SIGINT listener is installed
     connected |-> FALSE,   \* server.connect(transport) has been called
     closed |-> FALSE,      \* server.close() has completed
     signalled |-> FALSE,   \* SIGINT has been delivered
     exit |-> "none"]       \* "none" while alive, else the exit status

\* the arguments followed in this specification: none, an empty bag, and a bag
\* that carries every key of the server
LifeBags(keys) == {Undefined, Obj(<<>>), Obj([k \in keys |-> Str("116.4,39.9")])}

LifeInit ==
    /\ proc \in {Launched(sv, e) : sv \in {"coordinate", "route"}, e \in Environs}
    /\ env = ""
    /\ Quiet
    /\ listed = <<>>
    /\ calls = <<>>

Alive == proc.exit = "none"

\* coordinate server, module top: API_KEY is read; without it the module
\* throws, nothing else of the module runs and node exits with status 1
CoordLoad ==
    /\ proc.server = "coordinate"
    /\ proc.phase = "load"
    /\ IF Truthy(proc.environ)
       THEN /\ env' = proc.environ.s
            /\ proc' = [proc EXCEPT !.phase = "loaded"]
       ELSE /\ env' = env
            /\ proc' = [proc EXCEPT !.phase = "exited", !.exit = "1"]
    /\ UNCHANGED <<call, pc, gets, upstream, outcome, listed, calls>>

\* coordinate server, new AmapCoordinateServer(): the handlers are registered
\* and the SIGINT listener is installed
CoordConstruct ==
    /\ proc.server = "coordinate"
    /\ proc.phase = "loaded"
    /\ proc' = [proc EXCEPT !.phase = "constructed", !.handlers = TRUE, !.sigint = TRUE]
    /\ UNCHANGED <<env, call, pc, gets, upstream, outcome, listed, calls>>

\* coordinate server, run(): the transport is connected
CoordRun ==
    /\ proc.server = "coordinate"
    /\ proc.phase = "constructed"
    /\ proc' = [proc EXCEPT !.phase = "running", !.connected = TRUE]
    /\ UNCHANGED <<env, call, pc, gets, upstream, outcome, listed, calls>>

\* coordinate server, SIGINT listener up to its await: server.close()
CoordSigint ==
    /\ proc.server = "coordinate"
    /\ proc.phase \in {"constructed", "running"}
    /\ proc.sigint
    /\ proc' = [proc EXCEPT !.phase = "closing", !.signalled = TRUE,
                            !.connected = FALSE, !.closed = TRUE]
    /\ UNCHANGED <<env, call, pc, gets, upstream, outcome, listed, calls>>

\* coordinate server, SIGINT listener after its await: process.exit(0)
CoordSigintExit ==
    /\ proc.server = "coordinate"
    /\ proc.phase = "closing"
    /\ proc' = [proc EXCEPT !.phase = "exited", !.exit = "0"]
    /\ UNCHANGED <<env, call, pc, gets, upstream, outcome, listed, calls>>

\* route server, module top: the server is created and every handler is
\* registered; the environment is not read
RouteLoad ==
    /\ proc.server = "route"
    /\ proc.phase = "load"
    /\ proc' = [proc EXCEPT !.phase = "loaded", !.handlers = TRUE]
    /\ UNCHANGED <<env, call, pc, gets, upstream, outcome, listed, calls>>

\* route server, main(): the transport is connected
RouteMain ==
    /\ proc.server = "route"
    /\ proc.phase = "loaded"
    /\ proc' = [proc EXCEPT !.phase = "running", !.connected = TRUE]
    /\ UNCHANGED <<env, call, pc, gets, upstream, outcome, listed, calls>>

\* route server, SIGINT: the module installs no listener, so node's default
\* applies and the process is killed by the signal
RouteSigint ==
    /\ proc.server = "route"
    /\ proc.phase \in {"loaded", "running"}
    /\ ~proc.sigint
    /\ proc' = [proc EXCEPT !.phase = "exited", !.signalled = TRUE, !.exit = "SIGINT"]
    /\ UNCHANGED <<env, call, pc, gets, upstream, outcome, listed, calls>>

\* a ListTools request is answered
ListToolsRequest ==
    /\ proc.phase = "running"
    /\ proc.handlers
    /\ Len(listed) < MaxLists
    /\ listed' = Append(listed, ListTools(proc.server))
    /\ UNCHANGED <<env, call, pc, gets, upstream, outcome, proc, calls>>

\* a CallTool request reaches the process's handler
LifeCallToolRequest ==
    /\ proc.phase = "running"
    /\ proc.handlers
    /\ pc = "idle"
    /\ IF proc.server = "coordinate"
       THEN \E name \in Names, args \in LifeBags(CoordKeys) :
                Begin("coordinate", name, args, CoordCallTool(name, args, env))
       ELSE \E name \in Names, args \in LifeBags(RouteKeys) :
                Begin("route", name, args, RouteCallTool(name, args))

\* the awaited GET settles while the process is alive
LifeUpstreamSettles ==
    /\ Alive
    /\ \/ CoordUpstreamSettles
       \/ RouteUpstreamSettles

\* the response goes out over the connected transport
LifeReply ==
    /\ Alive
    /\ proc.connected
    /\ Reply

LifeNext ==
    \/ CoordLoad
    \/ CoordConstruct
    \/ CoordRun
    \/ CoordSigint
    \/ CoordSigintExit
    \/ RouteLoad
    \/ RouteMain
    \/ RouteSigint
    \/ ListToolsRequest
    \/ LifeCallToolRequest
    \/ LifeUpstreamSettles
    \/ LifeReply

LifeSpec == LifeInit /\ [][LifeNext]_vars

\* C11: a process started without AMAP_API_KEY registers no handler, connects
\* no transport, answers no ListTools or CallTool request and issues no GET.
C11_NoServiceWithoutCredential ==
    proc.environ = Undefined =>
        /\ ~proc.handlers
        /\ ~proc.connected
        /\ listed = <<>>
        /\ pc = "idle"
        /\ gets = <<>>

\* the required and optional columns of the endpoint table
EndpointRequired(name) ==
    CASE name = "coordinate_convert" -> {"locations"}
      [] name = "keyword_search" -> {"keywords"}
      [] name = "around_search" -> {"location"}
      [] name = "polygon_search" -> {"polygon"}
      [] name = "id_search" -> {"id"}
      [] name = "aoi_boundary_query" -> {"id"}
      [] name = "walking_route" -> {"origin", "destination"}
      [] name = "transit_route" -> {"origin", "destination", "city"}
      [] name = "driving_route" -> {"origin", "destination"}
      [] name = "bicycling_route" -> {"origin", "destination"}
      [] name = "distance" -> {"origins", "destination"}

EndpointOptional(name) ==
    CASE name = "coordinate_convert" -> {"coordsys", "output"}
      [] name = "keyword_search" ->
            {"types", "city", "citylimit", "children", "offset", "page", "extensions"}
      [] name = "around_search" ->
            {"keywords", "types", "city", "radius", "sortrule", "offset", "page",
             "extensions"}
      [] name = "polygon_search" -> {"keywords", "types", "offset", "page", "extensions"}
      [] OTHER -> {}

EndpointColumns(name) == EndpointRequired(name) \cup EndpointOptional(name)

\* the tools the endpoint table lists for a server
EndpointTools(server) ==
    IF server = "coordinate"
    THEN {"coordinate_convert", "keyword_search", "around_search", "polygon_search",
          "id_search", "aoi_boundary_query"}
    ELSE {"walking_route", "transit_route", "driving_route", "bicycling_route",
          "distance"}

\* the parameters a tool's CallTool branch puts into its request, the
\* credential aside
Forwarded(server, name) ==
    LET ks == IF server = "coordinate" THEN CoordParamKeys(name) ELSE RouteParamKeys(name)
    IN  {ks[i] : i \in DOMAIN ks} \ {"key"}

\* the query keys of a request, the credential aside
SentKeys(request) == {request.query[j][1] : j \in DOMAIN request.query} \ {"key"}

\* C13: every catalog a ListTools call returns lists the endpoint table's
\* tools for that server and declares as required exactly the table's required
\* column; each tool's branch forwards exactly the table's required and
\* optional columns (so a request carries no other key, and carries every
\* column the invocation supplies); and every ListTools call of a process
\* returns the same catalog.
C13_CatalogMatchesEndpointTable ==
    /\ \A i \in DOMAIN listed :
          /\ {listed[i][j].name : j \in DOMAIN listed[i]} = EndpointTools(proc.server)
          /\ \A j \in DOMAIN listed[i] :
                listed[i][j].required = EndpointRequired(listed[i][j].name)
          /\ listed[i] = listed[1]
    /\ \A n \in EndpointTools(proc.server) :
          Forwarded(proc.server, n) = EndpointColumns(n)
    /\ \A i \in DOMAIN gets :
          /\ SentKeys(gets[i]) \subseteq EndpointColumns(call.name)
          /\ \A k \in EndpointColumns(call.name) :
                HasKey(call.args, k) => k \in SentKeys(gets[i])

\* ListTools has answered twice and an around_search invocation that carries
\* every key of the coordinate server has had its request issued
C13_Witness ==
    /\ Len(listed) = 2
    /\ proc.server = "coordinate"
    /\ pc = "awaiting"
    /\ call.name = "around_search"
    /\ \A k \in CoordKeys : HasKey(call.args, k)
    /\ SentKeys(gets[1]) = EndpointColumns("around_search")

\* C14: a process that SIGINT has ended has closed its server and exited with
\* status 0; it has no exit status before the close has completed, and after
\* the close the transport is no longer connected.
C14_SigintClosesThenExitsZero ==
    /\ (proc.signalled /\ proc.phase = "exited") => (proc.closed /\ proc.exit = "0")
    /\ (proc.signalled /\ proc.exit # "none") => proc.closed
    /\ proc.closed => ~proc.connected

(***************************************************************************)
(* Invocations side by side: while one handler is suspended in its await,  *)
(* the same process may be handed the next request.  Each request id has   *)
(* its own handler activation.                                             *)
(***************************************************************************)
\* most invocations in progress at once
MaxCalls == 2

RequestIds == 1..MaxCalls

Idle == [pc |-> "idle"]

\* the invocations followed in this specification
OverlapInvocations ==
    {[server |-> "coordinate", name |-> n, args |-> a] :
        n \in {"id_search", "keyword_search", "walking_route"},
        a \in {Obj([id |-> Str("116.4,39.9")]), Obj([keywords |-> Num(5)])}}
    \cup
    {[server |-> "route", name |-> n, args |-> a] :
        n \in {"walking_route", "id_search"},
        a \in {Obj([origin |-> Str("116.4,39.9"), destination |-> Str("116.4,39.9")]),
               Obj([destination |-> Str("")])}}

OverlapOutcomes ==
    {NetworkError("connect ECONNREFUSED"),
     HttpResponse(200, JsonObj(<< <<"status", "1">> >>)),
     HttpResponse(500, JsonObj(<< <<"status", "0">>, <<"info", "INVALID_USER_KEY">> >>))}

\* the activation of the handler for one request: its own name and args, and
\* the locals it has set so far
Activation(inv, step, o) ==
    [pc |-> step.pc, server |-> inv.server, name |-> inv.name, args |-> inv.args,
     gets |-> step.gets, upstream |-> o, outcome |-> step.outcome]

\* Resumed with response (and the catch's error) kept in one place for the
\* whole module: every activation that is waiting sees what this one received
Resumed_SharedResponse(cs, i, step, o) ==
    [j \in DOMAIN cs |->
        IF j = i THEN [cs[j] EXCEPT !.pc = step.pc, !.gets = step.gets,
                                    !.upstream = o, !.outcome = step.outcome]
        ELSE IF cs[j].pc = "awaiting"
        THEN [cs[j] EXCEPT !.pc = step.pc, !.outcome = step.outcome]
        ELSE cs[j]]

\* the activation that awaited goes on with what it received: response and
\* error are locals of that activation
Resumed(cs, i, step, o) ==
    [cs EXCEPT ![i] = [@ EXCEPT !.pc = step.pc, !.gets = step.gets,
                                !.upstream = o, !.outcome = step.outcome]]

OverlapInit ==
    /\ env \in EnvKeys
    /\ Quiet
    /\ proc = Serving
    /\ listed = <<>>
    /\ calls = [i \in RequestIds |-> Idle]

\* a CallTool request arrives and its handler runs to its await or its throw
OverlapCallTool ==
    \E i \in RequestIds :
        /\ calls[i].pc = "idle"
        /\ \E inv \in OverlapInvocations :
              calls' = [calls EXCEPT ![i] =
                  Activation(inv,
                             IF inv.server = "coordinate"
                             THEN CoordCallTool(inv.name, inv.args, env)
                             ELSE RouteCallTool(inv.name, inv.args),
                             None)]
        /\ UNCHANGED <<env, call, pc, gets, upstream, outcome, proc, listed>>

\* the GET one activation awaits settles
OverlapSettles ==
    \E i \in RequestIds :
        /\ calls[i].pc = "awaiting"
        /\ \E o \in OverlapOutcomes :
              calls' = Resumed(calls, i,
                               IF calls[i].server = "coordinate"
                               THEN CoordResume(calls[i].gets, o)
                               ELSE RouteResume(calls[i].gets, o),
                               o)
        /\ UNCHANGED <<env, call, pc, gets, upstream, outcome, proc, listed>>

\* one activation's result is sent back
OverlapReply ==
    \E i \in RequestIds :
        /\ calls[i].pc = "done"
        /\ calls' = [calls EXCEPT ![i] = Idle]
        /\ UNCHANGED <<env, call, pc, gets, upstream, outcome, proc, listed>>

OverlapNext ==
    \/ OverlapCallTool
    \/ OverlapSettles
    \/ OverlapReply

OverlapSpec == OverlapInit /\ [][OverlapNext]_vars

PriorityKeys == <<"locations", "keywords", "location", "polygon", "id">>

\* the bag has one of the keys; the first of them in the check's order
HasPriorityKey(args) == \E i \in DOMAIN PriorityKeys : HasKey(args, PriorityKeys[i])

FirstPriorityKey(args) ==
    PriorityKeys[CHOOSE i \in DOMAIN PriorityKeys :
                    /\ HasKey(args, PriorityKeys[i])
                    /\ \A j \in DOMAIN PriorityKeys : j < i => ~HasKey(args, PriorityKeys[j])]

\* the decision as the claim words it: only the first key present counts, it
\* must be a string, and beside locations coordsys and output must be strings
\* when present
DecidedByFirstKey(args) ==
    /\ HasPriorityKey(args)
    /\ LET k == FirstPriorityKey(args)
       IN  /\ TypeOf(Get(args, k)) = "string"
           /\ k = "locations" =>
                 /\ HasKey(args, "coordsys") => TypeOf(Get(args, "coordsys")) = "string"
                 /\ HasKey(args, "output") => TypeOf(Get(args, "output")) = "string"

\* C15: for each of the six tools of the coordinate server alike, an
\* invocation is let through to its GET exactly when the first key its bag
\* has, in the order locations, keywords, location, polygon, id, is a string
\* (and coordsys and output are, beside locations); otherwise it is rejected
\* with InvalidParams and nothing is sent.  The tool's name plays no part.
C15_ArgumentCheckIgnoresTool ==
    (KnownTool /\ call.server = "coordinate")
    => IF DecidedByFirstKey(call.args)
       THEN Len(gets) = 1 /\ (pc = "done" => outcome.kind = "result")
       ELSE RejectedUnsent /\ outcome.error.code = "InvalidParams"

\* keyword_search was invoked with a string keywords and a locations that is
\* no string, and was rejected
C15_Witness ==
    /\ pc = "done"
    /\ call.server = "coordinate"
    /\ call.name = "keyword_search"
    /\ HasKey(call.args, "locations")
    /\ TypeOf(Get(call.args, "locations")) # "string"
    /\ TypeOf(Get(call.args, "keywords")) = "string"
    /\ RejectedUnsent

\* the upstream answers every GET the coordinate server waits for
FairSpec == Spec /\ WF_vars(CoordUpstreamSettles)

\* axios.get fails on this upstream outcome: the transport failed, or the
\* status is outside 2xx
UpstreamFailed == upstream.kind = "neterr" \/ (upstream.kind = "response" /\ ~(upstream.status >= 200 /\ upstream.status < 300))

\* the three ways a coordinate-server invocation ends
ThrewUnsent ==
    /\ outcome.kind = "throw"
    /\ outcome.error.class = "McpError"
    /\ outcome.error.code \in {"InvalidParams", "MethodNotFound"}
    /\ gets = <<>>
    /\ upstream = None

AnsweredSuccess ==
    /\ outcome.kind = "result"
    /\ ~IsError(outcome)
    /\ Len(gets) = 1
    /\ upstream.kind = "response"
    /\ ~UpstreamFailed

AnsweredError ==
    /\ outcome.kind = "result"
    /\ IsError(outcome)
    /\ Len(gets) = 1
    /\ UpstreamFailed

\* a finished coordinate-server invocation ended in exactly one of the three
\* ways, and the GET it sent, if any, is its own tool's
CoordOutcomeShape ==
    (InCall /\ call.server = "coordinate") =>
        /\ pc = "awaiting" => outcome = None
        /\ pc = "done" =>
              Cardinality({b \in {ThrewUnsent, AnsweredSuccess, AnsweredError} : b}) = 1
              /\ ~(ThrewUnsent /\ AnsweredSuccess)
              /\ ~(ThrewUnsent /\ AnsweredError)
              /\ ~(AnsweredSuccess /\ AnsweredError)
        /\ \A i \in DOMAIN gets :
              gets[i].url = "https://restapi.amap.com" \o EndpointPath(call.name)

\* C16: when the upstream answers every GET, every invocation of the
\* coordinate server ends, and it ends in exactly one of three ways: an
\* McpError (InvalidParams or MethodNotFound) thrown with no GET sent, a
\* response that is no error after one GET, or a response with isError = true
\* after one GET that failed; the GET is the invoked tool's own.
C16_InvocationEndsInOneOfThree ==
    /\ []CoordOutcomeShape
    /\ (pc = "awaiting" /\ call.server = "coordinate") ~> (pc = "done")

\* an invocation of the coordinate server has been answered with
\* isError = true after its GET failed
C16_Witness ==
    /\ pc = "done"
    /\ call.server = "coordinate"
    /\ AnsweredError
    /\ ~ThrewUnsent
    /\ ~AnsweredSuccess

====
